---- MODULE Spec2Model ----
(***************************************************************************)
(* TCPWaveDCHP (src/aiotcpwave/dhcp.py): the DHCP server directory         *)
(* (dhcp_servers, a bidict), fetch_dhcp_servers, the fan-out / drain       *)
(* generator _fetch_dhcp_leases_tasker and its four consumers.             *)
(*                                                                         *)
(* The user coroutines call fetch_dhcp_servers over and over; each         *)
(* call of Calls is one invocation of fetch_dhcp_leases,                   *)
(* find_dhcp_lease_ipaddr, find_dhcp_lease_macaddr,                        *)
(* find_dhcp_lease_matching, or a direct consumer of the tasker.  A step   *)
(* of the model is what one coroutine does between two suspensions of the  *)
(* asyncio event loop, or the completion of one request task.              *)
(***************************************************************************)
EXTENDS Naturals, Sequences, FiniteSets, TLC

\* ------------------------------------------------------------------ bounds

\* Longest server list the backend returns for /dhcpserver/list.
MaxServers == 2

\* Most rows in one /dhcpserver/dhcpActiveLeases response.
MaxRows == 2

\* ---------------------------------------------------------------- universe

Names == {"core1", "core2"}

Addrs == {"10.0.0.1", "10.0.0.2"}

\* The leases the backend knows: <<address, mac>>.
Leases == {<<"10.1.1.5", "aa:bb:cc:dd:ee:05">>, <<"10.1.1.6", "aa:bb:cc:dd:ee:06">>}

Calls == {"c1", "c2"}

Users == {"u1"}

SeqsUpTo(S, n) == UNION {[1..k -> S] : k \in 0..n}

\* A server record of the list response; a record may lack either field.
ServerRecs ==
    {[name |-> n, v4_ipaddress |-> a] : n \in Names, a \in Addrs}
        \cup {[name |-> n] : n \in Names}
        \cup {[v4_ipaddress |-> a] : a \in Addrs}

ServerBodies == SeqsUpTo(ServerRecs, MaxServers)

\* A row of a lease response of the server at address ip.
LeaseRec(l, ip) == [address |-> l[1], mac |-> l[2], dhcpServer |-> ip]

LeaseBodies(ip) == SeqsUpTo({LeaseRec(l, ip) : l \in Leases}, MaxRows)

\* ------------------------------------------------- python dict and bidict

\* An insertion-ordered dict is a sequence of <<key, value>> items.
DictKeys(d) == {d[i][1] : i \in 1..Len(d)}

DictValues(d) == [i \in 1..Len(d) |-> d[i][2]]

DictGet(d, k) == d[CHOOSE i \in 1..Len(d) : d[i][1] = k][2]

\* d[k] = v: a present key keeps its place and takes the new value.
DictSet(d, k, v) ==
    IF k \in DictKeys(d)
    THEN [i \in 1..Len(d) |-> IF d[i][1] = k THEN <<k, v>> ELSE d[i]]
    ELSE Append(d, <<k, v>>)

DictDel(d, k) == SelectSeq(d, LAMBDA it : it[1] # k)

\* bidict(): the forward dict and its inverse, both empty.
EmptyBidict == [fwdm |-> <<>>, invm |-> <<>>]

\* A directory taken for empty whatever it holds.
NeverTruthy(b) == FALSE

\* bool(self.dhcp_servers)
Truthy(b) == Len(b.fwdm) > 0

\* self.dhcp_servers[name] and self.dhcp_servers.inv[addr]; the caller checks
\* membership first, a missing key being a KeyError.
HasName(b, n) == n \in DictKeys(b.fwdm)

HasAddr(b, a) == a \in DictKeys(b.invm)

Lookup(b, n) == DictGet(b.fwdm, n)

InvLookup(b, a) == DictGet(b.invm, a)

\* No duplication check.
NeverDuplicated(b, k, v) == FALSE

\* bidict's duplication policy ON_DUP_DEFAULT: the value of one item already
\* bound to another key raises ValueDuplicationError.
ValueDuplicated(b, k, v) == HasAddr(b, v) /\ InvLookup(b, v) # k

\* One item written into both directions; a key already present drops its
\* old value (key duplication: DROP_OLD).
BidictPut(b, k, v) ==
    LET old == IF HasName(b, k) THEN <<Lookup(b, k)>> ELSE <<>>
        inv == IF old # <<>> /\ old[1] # v THEN DictDel(b.invm, old[1]) ELSE b.invm
    IN  [fwdm |-> DictSet(b.fwdm, k, v), invm |-> DictSet(inv, v, k)]

\* bidict.update(d): the items of d in order; when one raises, the items
\* written so far are rolled back and the bidict is as it was at the call.
RECURSIVE BidictUpdateFrom(_, _, _)
BidictUpdateFrom(b0, b, d) ==
    IF d = <<>> THEN [exc |-> "none", val |-> b]
    ELSE IF ValueDuplicated(b, d[1][1], d[1][2])
         THEN [exc |-> "ValueDuplicationError", val |-> b0]
         ELSE BidictUpdateFrom(b0, BidictPut(b, d[1][1], d[1][2]), Tail(d))

BidictUpdate(b, d) == BidictUpdateFrom(b, b, d)

\* {rec["name"]: rec["v4_ipaddress"] for rec in body}: a record without one
\* of the fields raises KeyError.
RECURSIVE DictComp(_, _)
DictComp(body, d) ==
    IF body = <<>> THEN [exc |-> "none", val |-> d]
    ELSE IF ~({"name", "v4_ipaddress"} \subseteq DOMAIN body[1])
         THEN [exc |-> "KeyError", val |-> <<>>]
         ELSE DictComp(Tail(body), DictSet(d, body[1].name, body[1].v4_ipaddress))

\* The directory left as it is, not cleared.
BidictNotCleared(b) == b

\* self.dhcp_servers.clear()
BidictClear(b) == EmptyBidict

\* fetch_dhcp_servers from the response on (lines 49-53): status is the
\* response's status class, body its decoded json.  The directory is cleared
\* before the new dict is built and written.
FetchServersResult(b, status, body) ==
    IF status = "error" THEN [exc |-> "HTTPStatusError", dir |-> b]
    ELSE LET cleared == BidictClear(b)
             d       == DictComp(body, <<>>)
             upd     == BidictUpdate(cleared, d.val)
         IN  IF d.exc # "none" THEN [exc |-> d.exc, dir |-> cleared]
             ELSE [exc |-> upd.exc, dir |-> upd.val]

\* --------------------------------------------------------- lease requests

\* What the awaited self.get("/dhcpserver/dhcpActiveLeases") of one task ends
\* in: the ReadTimeout exception, or a response with its is_error flag, its
\* text (as the tokens it starts with) and, when decoded, its rows.
OfflineText == <<"TIMS-3961", "server offline">>

ErrorTexts == {OfflineText, <<"TIMS-1001", "failure">>, <<"failure", "TIMS-3961">>}

Responses(ip) ==
    {[exception |-> "ReadTimeout", is_error |-> FALSE, text |-> <<>>, rows |-> <<>>]}
        \cup {[exception |-> "none", is_error |-> TRUE, text |-> t, rows |-> <<>>] :
                t \in ErrorTexts}
        \cup {[exception |-> "none", is_error |-> FALSE, text |-> <<>>, rows |-> b] :
                b \in LeaseBodies(ip)}

NoResponse == [exception |-> "none", is_error |-> FALSE, text |-> <<>>, rows |-> <<>>]

\* res.text.startswith("TIMS-3961")
StartsWith(text, token) == Len(text) > 0 /\ text[1] = token

\* Two tasks for each address.
NewTasksTwice(ips) ==
    [i \in 1..(2 * Len(ips)) |->
        [ip |-> ips[(i + 1) \div 2], st |-> "pending", cancel_req |-> FALSE,
         res |-> NoResponse]]

\* asyncio.ensure_future(self.get(...)) for each address, in order.
NewTasks(ips) ==
    [i \in 1..Len(ips) |->
        [ip |-> ips[i], st |-> "pending", cancel_req |-> FALSE, res |-> NoResponse]]

\* The names the directory knows resolved, the others left out.
ServersIpSkipsUnknown(b, servers) ==
    IF Len(servers) > 0
    THEN LET known == SelectSeq(servers, LAMBDA n : HasName(b, n))
         IN  [exc |-> "none", val |-> [i \in 1..Len(known) |-> Lookup(b, known[i])]]
    ELSE [exc |-> "none", val |-> DictValues(b.fwdm)]

\* servers_ip: the named servers' addresses, or every address of the
\* directory when servers is None or empty; an unknown name is a KeyError.
ServersIp(b, servers) ==
    IF Len(servers) > 0
    THEN IF \E i \in 1..Len(servers) : ~HasName(b, servers[i])
         THEN [exc |-> "KeyError", val |-> <<>>]
         ELSE [exc |-> "none", val |-> [i \in 1..Len(servers) |-> Lookup(b, servers[i])]]
    ELSE [exc |-> "none", val |-> DictValues(b.fwdm)]

\* Page without the "except ReadTimeout" clause.
PageWithoutExcept(t) ==
    IF t.st = "cancelled" THEN [exc |-> "CancelledError", rows |-> <<>>]
    ELSE IF t.res.exception = "ReadTimeout" THEN [exc |-> "ReadTimeout", rows |-> <<>>]
    ELSE IF t.res.is_error /\ StartsWith(t.res.text, "TIMS-3961")
         THEN [exc |-> "none", rows |-> <<>>]
    ELSE IF t.res.is_error THEN [exc |-> "HTTPStatusError", rows |-> <<>>]
    ELSE [exc |-> "none", rows |-> t.res.rows]

\* Page skipping every error response, whatever its text.
PageSkippingErrors(t) ==
    IF t.st = "cancelled" THEN [exc |-> "CancelledError", rows |-> <<>>]
    ELSE IF t.res.exception = "ReadTimeout" THEN [exc |-> "none", rows |-> <<>>]
    ELSE IF t.res.is_error THEN [exc |-> "none", rows |-> <<>>]
    ELSE [exc |-> "none", rows |-> t.res.rows]

\* One turn of "for next_page in asyncio.as_completed(tasks)" on the
\* completed task t: the exception that leaves the generator, or the rows it
\* yields.  Awaiting a cancelled task raises CancelledError, which the
\* except clause (ReadTimeout only) does not catch.
Page(t) ==
    IF t.st = "cancelled" THEN [exc |-> "CancelledError", rows |-> <<>>]
    ELSE IF t.res.exception = "ReadTimeout" THEN [exc |-> "none", rows |-> <<>>]
    ELSE IF t.res.is_error /\ StartsWith(t.res.text, "TIMS-3961")
         THEN [exc |-> "none", rows |-> <<>>]
    ELSE IF t.res.is_error THEN [exc |-> "HTTPStatusError", rows |-> <<>>]
    ELSE [exc |-> "none", rows |-> t.res.rows]

\* Cancelling the first task only.
CancelFirstTaskOnly(ts) ==
    [i \in 1..Len(ts) |->
        IF i = 1 /\ ts[i].st = "pending" THEN [ts[i] EXCEPT !.cancel_req = TRUE] ELSE ts[i]]

\* t.cancel() for t in tasks: a pending task is requested to cancel, a task
\* that is done is left as it is.
CancelAllTasks(ts) ==
    [i \in 1..Len(ts) |->
        IF ts[i].st = "pending" THEN [ts[i] EXCEPT !.cancel_req = TRUE] ELSE ts[i]]

\* ---------------------------------------------------------------- consumers

\* A consumer's state after one turn of its loop over the generator.
Out(p, e, y, f, r, cn) ==
    [pc |-> p, exc |-> e, yielded |-> y, found |-> f, result |-> r, cancel |-> cn]

\* The rows of task i yielded last row first.
TagReversed(rows, i) ==
    [k \in 1..Len(rows) |-> [task |-> i, rec |-> rows[Len(rows) + 1 - k]]]

\* The rows of task i as the generator yields them.
Tag(rows, i) == [k \in 1..Len(rows) |-> [task |-> i, rec |-> rows[k]]]

\* The place of the first row whose field equals a, 0 when there is none.
FirstIndex(rows, field, a) ==
    IF \E k \in 1..Len(rows) : rows[k][field] = a
    THEN CHOOSE k \in 1..Len(rows) :
            rows[k][field] = a /\ \A j \in 1..(k - 1) : rows[j][field] # a
    ELSE 0

\* found["dhcpServerName"] = self.dhcp_servers.inv[found["dhcpServer"]]
Enrich(b, rec) ==
    [address |-> rec.address, mac |-> rec.mac, dhcpServer |-> rec.dhcpServer,
     dhcpServerName |-> InvLookup(b, rec.dhcpServer)]

\* fetch_dhcp_leases pulling the first record off the generator with the
\* task handles.
FetchLeasesStepDropsFirst(b, a, cur, i, page, last) ==
    IF page.exc # "none" THEN Out("raised", page.exc, cur.yielded, <<>>, <<>>, FALSE)
    ELSE Out(IF last THEN "returned" ELSE "drain", "none",
             cur.yielded \o Tag(IF cur.yielded = <<>> /\ page.rows # <<>>
                                THEN Tail(page.rows) ELSE page.rows, i),
             <<>>, <<>>, FALSE)

\* fetch_dhcp_leases: every record of the generator is yielded on.
FetchLeasesStep(b, a, cur, i, page, last) ==
    IF page.exc # "none" THEN Out("raised", page.exc, cur.yielded, <<>>, <<>>, FALSE)
    ELSE Out(IF last THEN "returned" ELSE "drain", "none",
             cur.yielded \o Tag(page.rows, i), <<>>, <<>>, FALSE)

\* A direct consumer of the generator: takes the task handles, then every
\* record.
TaskerStep(b, a, cur, i, page, last) ==
    IF page.exc # "none" THEN Out("raised", page.exc, cur.yielded, <<>>, <<>>, FALSE)
    ELSE Out(IF last THEN "returned" ELSE "drain", "none",
             cur.yielded \o Tag(page.rows, i), <<>>, <<>>, FALSE)

\* Find-first without the break: the last matching record of the response.
FindFirstStepNoBreak(field, b, a, cur, i, page, last) ==
    LET hits == {k \in 1..Len(page.rows) : page.rows[k][field] = a}
        k    == IF hits = {} THEN 0 ELSE CHOOSE h \in hits : \A g \in hits : g <= h
    IN  IF page.exc # "none" THEN Out("raised", page.exc, cur.yielded, <<>>, <<>>, FALSE)
        ELSE IF k = 0
             THEN Out(IF last THEN "returned" ELSE "drain", "none",
                      cur.yielded \o Tag(page.rows, i), <<>>, <<>>, FALSE)
        ELSE IF ~HasAddr(b, page.rows[k].dhcpServer)
             THEN Out("raised", "KeyError",
                      cur.yielded \o Tag(SubSeq(page.rows, 1, k), i), <<>>, <<>>, TRUE)
        ELSE Out("returned", "none", cur.yielded \o Tag(SubSeq(page.rows, 1, k), i),
                 <<>>, <<Enrich(b, page.rows[k])>>, TRUE)

\* Find-first returning None at the first response without a match.
FindFirstStepReturnsEarly(field, b, a, cur, i, page, last) ==
    LET k == FirstIndex(page.rows, field, a)
    IN  IF page.exc # "none" THEN Out("raised", page.exc, cur.yielded, <<>>, <<>>, FALSE)
        ELSE IF k = 0
             THEN Out("returned", "none", cur.yielded \o Tag(page.rows, i), <<>>, <<>>, FALSE)
        ELSE IF ~HasAddr(b, page.rows[k].dhcpServer)
             THEN Out("raised", "KeyError",
                      cur.yielded \o Tag(SubSeq(page.rows, 1, k), i), <<>>, <<>>, TRUE)
        ELSE Out("returned", "none", cur.yielded \o Tag(SubSeq(page.rows, 1, k), i),
                 <<>>, <<Enrich(b, page.rows[k])>>, TRUE)

\* Find-first going on with the drain after its match: it returns the record
\* only when the last task has been awaited.
FindFirstStepAwaitsTasks(field, b, a, cur, i, page, last) ==
    LET k == FirstIndex(page.rows, field, a)
    IN  IF page.exc # "none" THEN Out("raised", page.exc, cur.yielded, <<>>, <<>>, FALSE)
        ELSE IF k = 0
             THEN Out(IF last THEN "returned" ELSE "drain", "none",
                      cur.yielded \o Tag(page.rows, i), <<>>, <<>>, FALSE)
        ELSE IF ~HasAddr(b, page.rows[k].dhcpServer)
             THEN Out("raised", "KeyError",
                      cur.yielded \o Tag(SubSeq(page.rows, 1, k), i), <<>>, <<>>, TRUE)
        ELSE Out(IF last THEN "returned" ELSE "drain", "none",
                 cur.yielded \o Tag(SubSeq(page.rows, 1, k), i),
                 <<>>, <<Enrich(b, page.rows[k])>>, TRUE)

\* Find-first looking the server name up before it cancels the tasks.
FindFirstStepLooksUpFirst(field, b, a, cur, i, page, last) ==
    LET k == FirstIndex(page.rows, field, a)
    IN  IF page.exc # "none" THEN Out("raised", page.exc, cur.yielded, <<>>, <<>>, FALSE)
        ELSE IF k = 0
             THEN Out(IF last THEN "returned" ELSE "drain", "none",
                      cur.yielded \o Tag(page.rows, i), <<>>, <<>>, FALSE)
        ELSE IF ~HasAddr(b, page.rows[k].dhcpServer)
             THEN Out("raised", "KeyError",
                      cur.yielded \o Tag(SubSeq(page.rows, 1, k), i), <<>>, <<>>, FALSE)
        ELSE Out("returned", "none", cur.yielded \o Tag(SubSeq(page.rows, 1, k), i),
                 <<>>, <<Enrich(b, page.rows[k])>>, TRUE)

\* Find-first taking an error response for an empty one.
FindFirstStepIgnoresErrors(field, b, a, cur, i, page, last) ==
    LET k == FirstIndex(page.rows, field, a)
    IN  IF page.exc = "HTTPStatusError"
        THEN Out(IF last THEN "returned" ELSE "drain", "none", cur.yielded, <<>>, <<>>, FALSE)
        ELSE IF page.exc # "none" THEN Out("raised", page.exc, cur.yielded, <<>>, <<>>, FALSE)
        ELSE IF k = 0
             THEN Out(IF last THEN "returned" ELSE "drain", "none",
                      cur.yielded \o Tag(page.rows, i), <<>>, <<>>, FALSE)
        ELSE IF ~HasAddr(b, page.rows[k].dhcpServer)
             THEN Out("raised", "KeyError",
                      cur.yielded \o Tag(SubSeq(page.rows, 1, k), i), <<>>, <<>>, TRUE)
        ELSE Out("returned", "none", cur.yielded \o Tag(SubSeq(page.rows, 1, k), i),
                 <<>>, <<Enrich(b, page.rows[k])>>, TRUE)

\* find_dhcp_lease_ipaddr / find_dhcp_lease_macaddr: break at the first record
\* whose field equals the value, cancel every task, enrich, return; None when
\* the generator ends first.
FindFirstStep(field, b, a, cur, i, page, last) ==
    LET k == FirstIndex(page.rows, field, a)
    IN  IF page.exc # "none" THEN Out("raised", page.exc, cur.yielded, <<>>, <<>>, FALSE)
        ELSE IF k = 0
             THEN Out(IF last THEN "returned" ELSE "drain", "none",
                      cur.yielded \o Tag(page.rows, i), <<>>, <<>>, FALSE)
        ELSE IF ~HasAddr(b, page.rows[k].dhcpServer)
             THEN Out("raised", "KeyError",
                      cur.yielded \o Tag(SubSeq(page.rows, 1, k), i), <<>>, <<>>, TRUE)
        ELSE Out("returned", "none", cur.yielded \o Tag(SubSeq(page.rows, 1, k), i),
                 <<>>, <<Enrich(b, page.rows[k])>>, TRUE)

FindIpaddrStep(b, a, cur, i, page, last) ==
    FindFirstStep("address", b, a, cur, i, page, last)

FindMacaddrStep(b, a, cur, i, page, last) ==
    FindFirstStep("mac", b, a, cur, i, page, last)

\* matcher(rec): the matchers of the model accept a set of leases.
Matcher(a, rec) == <<rec.address, rec.mac>> \in a

\* find_dhcp_lease_matching with found_records reset at each response.
FindMatchingStepResets(b, a, cur, i, page, last) ==
    LET found == SelectSeq(page.rows, LAMBDA rec : Matcher(a, rec))
    IN  IF page.exc # "none" THEN Out("raised", page.exc, cur.yielded, cur.found, <<>>, FALSE)
        ELSE IF ~last
             THEN Out("drain", "none", cur.yielded \o Tag(page.rows, i), found, <<>>, FALSE)
        ELSE IF \E j \in 1..Len(found) : ~HasAddr(b, found[j].dhcpServer)
             THEN Out("raised", "KeyError", cur.yielded \o Tag(page.rows, i), found, <<>>, FALSE)
        ELSE Out("returned", "none", cur.yielded \o Tag(page.rows, i), found,
                 [j \in 1..Len(found) |-> Enrich(b, found[j])], FALSE)

\* find_dhcp_lease_matching returning at the first response with an accepted
\* record.
FindMatchingStepStopsAtMatch(b, a, cur, i, page, last) ==
    LET found == cur.found \o SelectSeq(page.rows, LAMBDA rec : Matcher(a, rec))
    IN  IF page.exc # "none" THEN Out("raised", page.exc, cur.yielded, cur.found, <<>>, FALSE)
        ELSE IF ~last /\ found = <<>>
             THEN Out("drain", "none", cur.yielded \o Tag(page.rows, i), found, <<>>, FALSE)
        ELSE IF \E j \in 1..Len(found) : ~HasAddr(b, found[j].dhcpServer)
             THEN Out("raised", "KeyError", cur.yielded \o Tag(page.rows, i), found, <<>>, FALSE)
        ELSE Out("returned", "none", cur.yielded \o Tag(page.rows, i), found,
                 [j \in 1..Len(found) |-> Enrich(b, found[j])], FALSE)

\* find_dhcp_lease_matching: collect the records the matcher accepts; when the
\* generator has ended, enrich each and return the list.
FindMatchingStep(b, a, cur, i, page, last) ==
    LET found == cur.found \o SelectSeq(page.rows, LAMBDA rec : Matcher(a, rec))
    IN  IF page.exc # "none" THEN Out("raised", page.exc, cur.yielded, cur.found, <<>>, FALSE)
        ELSE IF ~last
             THEN Out("drain", "none", cur.yielded \o Tag(page.rows, i), found, <<>>, FALSE)
        ELSE IF \E j \in 1..Len(found) : ~HasAddr(b, found[j].dhcpServer)
             THEN Out("raised", "KeyError", cur.yielded \o Tag(page.rows, i), found, <<>>, FALSE)
        ELSE Out("returned", "none", cur.yielded \o Tag(page.rows, i), found,
                 [j \in 1..Len(found) |-> Enrich(b, found[j])], FALSE)

Kinds ==
    {"fetch_dhcp_leases", "find_dhcp_lease_ipaddr", "find_dhcp_lease_macaddr",
     "find_dhcp_lease_matching", "tasker"}

FindFirstKinds == {"find_dhcp_lease_ipaddr", "find_dhcp_lease_macaddr"}

\* The arguments a call of each kind is made with.
Args(k) ==
    CASE k = "find_dhcp_lease_ipaddr" -> {l[1] : l \in Leases}
      [] k = "find_dhcp_lease_macaddr" -> {l[2] : l \in Leases}
      [] k = "find_dhcp_lease_matching" -> SUBSET Leases
      [] OTHER -> {{}}

\* servers: None (the empty sequence here, as falsy as None) or server names.
ServerParams == {s \in SeqsUpTo(Names, MaxServers) : \A i, j \in 1..Len(s) : s[i] = s[j] => i = j}

ConsumerStep(k, b, a, cur, i, page, last) ==
    CASE k = "fetch_dhcp_leases" -> FetchLeasesStep(b, a, cur, i, page, last)
      [] k = "find_dhcp_lease_ipaddr" -> FindIpaddrStep(b, a, cur, i, page, last)
      [] k = "find_dhcp_lease_macaddr" -> FindMacaddrStep(b, a, cur, i, page, last)
      [] k = "find_dhcp_lease_matching" -> FindMatchingStep(b, a, cur, i, page, last)
      [] OTHER -> TaskerStep(b, a, cur, i, page, last)

\* -------------------------------------------------------------------- state

VARIABLES
    dhcp_servers,   \* self.dhcp_servers
    fs_pc,          \* per user coroutine, its fetch_dhcp_servers: "idle" | "awaiting"
                    \* ("ended" for a coroutine that made its one call)
    fs_ret,         \* per user coroutine: how its last fetch_dhcp_servers ended
                    \* (the exception) and the list the backend sent
    pc,             \* per call: "idle" | "refresh" | "drain" | "returned" | "raised"
    kind,           \* per call: the method called
    arg,            \* per call: ipaddr, macaddr or matcher
    servers,        \* per call: the servers parameter
    refreshed,      \* per call: the tasker issued the list request
    tasks,          \* per call: the tasks, in submission order
    doneq,          \* per call: as_completed's queue, task indexes in completion order
    consumed,       \* per call: how many turns of the as_completed loop have run
    yielded,        \* per call: the records the generator has yielded
    found_records,  \* per call: find_dhcp_lease_matching's list
    cancelled,      \* per call: the consumer has run "for t in tasks: t.cancel()"
    result,         \* per call: the value returned (a list; None is <<>>)
    exc             \* per call: the exception raised to the caller

dirvars == <<dhcp_servers, fs_pc, fs_ret>>

callvars ==
    <<pc, kind, arg, servers, refreshed, tasks, doneq, consumed, yielded,
      found_records, cancelled, result, exc>>

vars == <<dirvars, callvars>>

\* __init__: an empty directory; no call made yet.
Init ==
    /\ dhcp_servers = EmptyBidict
    /\ fs_pc = [u \in Users |-> "idle"]
    /\ fs_ret = [u \in Users |-> [exc |-> "never", body |-> <<>>]]
    /\ pc = [c \in Calls |-> "idle"]
    /\ kind = [c \in Calls |-> "tasker"]
    /\ arg = [c \in Calls |-> {}]
    /\ servers = [c \in Calls |-> <<>>]
    /\ refreshed = [c \in Calls |-> FALSE]
    /\ tasks = [c \in Calls |-> <<>>]
    /\ doneq = [c \in Calls |-> <<>>]
    /\ consumed = [c \in Calls |-> 0]
    /\ yielded = [c \in Calls |-> <<>>]
    /\ found_records = [c \in Calls |-> <<>>]
    /\ cancelled = [c \in Calls |-> FALSE]
    /\ result = [c \in Calls |-> <<>>]
    /\ exc = [c \in Calls |-> "none"]

\* ------------------------------------------------------- fetch_dhcp_servers

ListStatuses == {"ok", "error"}

\* A user coroutine calls fetch_dhcp_servers: the request is sent.
UserFetchStart(u) ==
    /\ fs_pc[u] = "idle"
    /\ fs_pc' = [fs_pc EXCEPT ![u] = "awaiting"]
    /\ UNCHANGED <<dhcp_servers, fs_ret, callvars>>

\* The list response arrives; lines 49-53 run without suspension.  The caller
\* is left with the exception or the returned body.
UserFetchDone(u) ==
    /\ fs_pc[u] = "awaiting"
    /\ \E status \in ListStatuses, body \in ServerBodies :
        LET r == FetchServersResult(dhcp_servers, status, body)
        IN  /\ dhcp_servers' = r.dir
            /\ fs_ret' = [fs_ret EXCEPT ![u] =
                            [exc |-> r.exc, body |-> IF status = "ok" THEN body ELSE <<>>]]
    /\ fs_pc' = [fs_pc EXCEPT ![u] = "idle"]
    /\ UNCHANGED callvars

\* The list response arrives at a coroutine that calls fetch_dhcp_servers once
\* and drops what it returns or raises; lines 49-53 run without suspension.
UserFetchOnceDone(u) ==
    /\ fs_pc[u] = "awaiting"
    /\ \E status \in ListStatuses, body \in ServerBodies :
        dhcp_servers' = FetchServersResult(dhcp_servers, status, body).dir
    /\ fs_pc' = [fs_pc EXCEPT ![u] = "ended"]
    /\ UNCHANGED <<fs_ret, callvars>>

\* --------------------------------------------------- _fetch_dhcp_leases_tasker

\* Lines 191-206 and the consumer's first turn, with the directory b: the
\* addresses are resolved, one task per address is created, the handles are
\* yielded; with no task the as_completed loop ends at once.
FanOut(c, b, k, a, s) ==
    LET ips == ServersIp(b, s)
        ts  == NewTasks(ips.val)
        out == ConsumerStep(k, b, a, [yielded |-> <<>>, found |-> <<>>], 0,
                            [exc |-> "none", rows |-> <<>>], TRUE)
    IN  /\ tasks' = [tasks EXCEPT ![c] = ts]
        /\ pc' = [pc EXCEPT ![c] = IF ips.exc # "none" THEN "raised"
                                   ELSE IF Len(ts) = 0 THEN out.pc ELSE "drain"]
        /\ exc' = [exc EXCEPT ![c] = ips.exc]
        /\ UNCHANGED <<doneq, consumed, yielded, found_records, cancelled, result>>

\* A call starts: with an empty directory the tasker first awaits
\* fetch_dhcp_servers, else it fans out at once.
Start(c) ==
    /\ pc[c] = "idle"
    /\ \E k \in Kinds : \E a \in Args(k), s \in ServerParams :
        /\ kind' = [kind EXCEPT ![c] = k]
        /\ arg' = [arg EXCEPT ![c] = a]
        /\ servers' = [servers EXCEPT ![c] = s]
        /\ IF ~Truthy(dhcp_servers)
           THEN /\ pc' = [pc EXCEPT ![c] = "refresh"]
                /\ refreshed' = [refreshed EXCEPT ![c] = TRUE]
                /\ UNCHANGED <<tasks, doneq, consumed, yielded, found_records,
                               cancelled, result, exc>>
           ELSE /\ FanOut(c, dhcp_servers, k, a, s)
                /\ UNCHANGED refreshed
    /\ UNCHANGED dirvars

\* The list response of the tasker's own fetch_dhcp_servers arrives.
RefreshDone(c) ==
    /\ pc[c] = "refresh"
    /\ \E status \in ListStatuses, body \in ServerBodies :
        LET r == FetchServersResult(dhcp_servers, status, body)
        IN  /\ dhcp_servers' = r.dir
            /\ IF r.exc # "none"
               THEN /\ pc' = [pc EXCEPT ![c] = "raised"]
                    /\ exc' = [exc EXCEPT ![c] = r.exc]
                    /\ UNCHANGED <<tasks, doneq, consumed, yielded, found_records,
                                   cancelled, result>>
               ELSE FanOut(c, r.dir, kind[c], arg[c], servers[c])
    /\ UNCHANGED <<fs_pc, fs_ret, kind, arg, servers, refreshed>>

\* The request of a pending task ends: a response or ReadTimeout.
TaskComplete(c) ==
    /\ \E i \in 1..Len(tasks[c]) :
        /\ tasks[c][i].st = "pending"
        /\ ~tasks[c][i].cancel_req
        /\ \E r \in Responses(tasks[c][i].ip) :
            tasks' = [tasks EXCEPT ![c][i] = [@ EXCEPT !.st = "done", !.res = r]]
        /\ doneq' = [doneq EXCEPT ![c] = Append(@, i)]
    /\ UNCHANGED <<dirvars, pc, kind, arg, servers, refreshed, consumed, yielded,
                   found_records, cancelled, result, exc>>

\* A pending task that was requested to cancel ends cancelled.
TaskCancelled(c) ==
    /\ \E i \in 1..Len(tasks[c]) :
        /\ tasks[c][i].st = "pending"
        /\ tasks[c][i].cancel_req
        /\ tasks' = [tasks EXCEPT ![c][i] = [@ EXCEPT !.st = "cancelled"]]
        /\ doneq' = [doneq EXCEPT ![c] = Append(@, i)]
    /\ UNCHANGED <<dirvars, pc, kind, arg, servers, refreshed, consumed, yielded,
                   found_records, cancelled, result, exc>>

\* NextPage with one task set for the client: the cancel loop of a call
\* reaches the tasks of every call.
NextPageSharedTasks(c) ==
    /\ pc[c] = "drain"
    /\ consumed[c] < Len(doneq[c])
    /\ LET i   == doneq[c][consumed[c] + 1]
           out == ConsumerStep(kind[c], dhcp_servers, arg[c],
                               [yielded |-> yielded[c], found |-> found_records[c]],
                               i, Page(tasks[c][i]), consumed[c] + 1 = Len(tasks[c]))
       IN  /\ consumed' = [consumed EXCEPT ![c] = @ + 1]
           /\ pc' = [pc EXCEPT ![c] = out.pc]
           /\ exc' = [exc EXCEPT ![c] = out.exc]
           /\ yielded' = [yielded EXCEPT ![c] = out.yielded]
           /\ found_records' = [found_records EXCEPT ![c] = out.found]
           /\ result' = [result EXCEPT ![c] = out.result]
           /\ cancelled' = [cancelled EXCEPT ![c] = @ \/ out.cancel]
           /\ tasks' = [d \in Calls |-> IF out.cancel THEN CancelAllTasks(tasks[d]) ELSE tasks[d]]
    /\ UNCHANGED <<dirvars, kind, arg, servers, refreshed, doneq>>

\* The generator takes the next completed task and the consumer takes what it
\* yields (lines 208-224 and the consumer's loop).
NextPage(c) ==
    /\ pc[c] = "drain"
    /\ consumed[c] < Len(doneq[c])
    /\ LET i   == doneq[c][consumed[c] + 1]
           out == ConsumerStep(kind[c], dhcp_servers, arg[c],
                               [yielded |-> yielded[c], found |-> found_records[c]],
                               i, Page(tasks[c][i]), consumed[c] + 1 = Len(tasks[c]))
       IN  /\ consumed' = [consumed EXCEPT ![c] = @ + 1]
           /\ pc' = [pc EXCEPT ![c] = out.pc]
           /\ exc' = [exc EXCEPT ![c] = out.exc]
           /\ yielded' = [yielded EXCEPT ![c] = out.yielded]
           /\ found_records' = [found_records EXCEPT ![c] = out.found]
           /\ result' = [result EXCEPT ![c] = out.result]
           /\ cancelled' = [cancelled EXCEPT ![c] = @ \/ out.cancel]
           /\ tasks' = [tasks EXCEPT ![c] = IF out.cancel THEN CancelAllTasks(@) ELSE @]
    /\ UNCHANGED <<dirvars, kind, arg, servers, refreshed, doneq>>

\* A direct consumer of the tasker cancels every task and goes on consuming.
CancelAll(c) ==
    /\ pc[c] = "drain"
    /\ kind[c] = "tasker"
    /\ ~cancelled[c]
    /\ cancelled' = [cancelled EXCEPT ![c] = TRUE]
    /\ tasks' = [tasks EXCEPT ![c] = CancelAllTasks(@)]
    /\ UNCHANGED <<dirvars, pc, kind, arg, servers, refreshed, doneq, consumed,
                   yielded, found_records, result, exc>>

\* The steps of one call and of its tasks.
CallNext(c) ==
    \/ Start(c)
    \/ RefreshDone(c)
    \/ TaskComplete(c)
    \/ TaskCancelled(c)
    \/ NextPage(c)
    \/ CancelAll(c)

\* One call on a freshly constructed client.
Next == CallNext("c1")

Spec == Init /\ [][Next]_vars

\* The caller, its call ended, makes its next call on the same client: the
\* generator of the ended call, its tasks and its locals are gone; the
\* directory is the client's and stays.
NextCall(c) ==
    /\ pc[c] \in {"returned", "raised"}
    /\ pc' = [pc EXCEPT ![c] = "idle"]
    /\ kind' = [kind EXCEPT ![c] = "tasker"]
    /\ arg' = [arg EXCEPT ![c] = {}]
    /\ servers' = [servers EXCEPT ![c] = <<>>]
    /\ refreshed' = [refreshed EXCEPT ![c] = FALSE]
    /\ tasks' = [tasks EXCEPT ![c] = <<>>]
    /\ doneq' = [doneq EXCEPT ![c] = <<>>]
    /\ consumed' = [consumed EXCEPT ![c] = 0]
    /\ yielded' = [yielded EXCEPT ![c] = <<>>]
    /\ found_records' = [found_records EXCEPT ![c] = <<>>]
    /\ cancelled' = [cancelled EXCEPT ![c] = FALSE]
    /\ result' = [result EXCEPT ![c] = <<>>]
    /\ exc' = [exc EXCEPT ![c] = "none"]
    /\ UNCHANGED dirvars

\* One caller making call after call on the client.
SeqNext == CallNext("c1") \/ NextCall("c1")

SpecSeq == Init /\ [][SeqNext]_vars

\* One call, and another coroutine that calls fetch_dhcp_servers once while
\* the call awaits its lease responses.
RaceNext ==
    \/ CallNext("c1")
    \/ pc["c1"] = "drain" /\ UserFetchStart("u1")
    \/ UserFetchOnceDone("u1")

SpecRace == Init /\ [][RaceNext]_vars

\* Two calls running concurrently on the client: c1 a find_dhcp_lease_ipaddr
\* over all servers, c2 a find_dhcp_lease_matching that accepts every lease
\* of one named server and is started once the directory is filled.
TwoNext ==
    \/ Start("c1") /\ kind'["c1"] = "find_dhcp_lease_ipaddr" /\ servers'["c1"] = <<>>
    \/ RefreshDone("c1")
    \/ TaskComplete("c1")
    \/ TaskCancelled("c1")
    \/ NextPage("c1")
    \/ /\ dhcp_servers # EmptyBidict
       /\ Start("c2")
       /\ kind'["c2"] = "find_dhcp_lease_matching" /\ arg'["c2"] = Leases
       /\ Len(servers'["c2"]) = 1
    \/ TaskComplete("c2")
    \/ NextPage("c2")

SpecTwo == Init /\ [][TwoNext]_vars

\* A user coroutine calling fetch_dhcp_servers over and over.
DirNext ==
    \/ \E u \in Users : UserFetchStart(u)
    \/ \E u \in Users : UserFetchDone(u)

SpecDir == Init /\ [][DirNext]_vars

\* ------------------------------------------------------------------ claims

\* The outcome of a finished task, read off its response.
TimedOut(t) == t.st = "done" /\ t.res.exception = "ReadTimeout"

Offline(t) ==
    /\ t.st = "done" /\ t.res.exception = "none" /\ t.res.is_error
    /\ Len(t.res.text) > 0 /\ Head(t.res.text) = "TIMS-3961"

Benign(t) == TimedOut(t) \/ Offline(t)

Successful(t) == t.st = "done" /\ t.res.exception = "none" /\ ~t.res.is_error

NonBenign(t) == t.st = "done" /\ t.res.exception = "none" /\ t.res.is_error /\ ~Offline(t)

\* The task taken by the j-th turn of the as_completed loop of call c.
Taken(c, j) == tasks[c][doneq[c][j]]

\* The records call c was yielded from task i, in the order yielded.
RowsFrom(c, i) ==
    LET own == SelectSeq(yielded[c], LAMBDA y : y.task = i)
    IN  [k \in 1..Len(own) |-> own[k].rec]

YieldedRecs(c) == [k \in 1..Len(yielded[c]) |-> yielded[c][k].rec]

\* The rows of the first n tasks taken, in completion order then row order:
\* all the rows of each successful response.
RECURSIVE RowsInOrder(_, _)
RowsInOrder(c, n) ==
    IF n = 0 THEN <<>>
    ELSE RowsInOrder(c, n - 1)
            \o (IF Successful(Taken(c, n)) THEN Taken(c, n).res.rows ELSE <<>>)

RECURSIVE RowCount(_, _)
RowCount(ts, n) ==
    IF n = 0 THEN 0
    ELSE RowCount(ts, n - 1) + (IF Successful(ts[n]) THEN Len(ts[n].res.rows) ELSE 0)

IsPrefix(s, t) == Len(s) <= Len(t) /\ SubSeq(t, 1, Len(s)) = s

\* The field a find-first call compares.
Field(c) == IF kind[c] = "find_dhcp_lease_ipaddr" THEN "address" ELSE "mac"

\* Record r is record rec with the directory's name for rec's server.
IsEnriched(r, rec) ==
    /\ r.address = rec.address /\ r.mac = rec.mac /\ r.dhcpServer = rec.dhcpServer
    /\ HasName(dhcp_servers, r.dhcpServerName)
    /\ Lookup(dhcp_servers, r.dhcpServerName) = rec.dhcpServer

FoundMatch(c) == kind[c] \in FindFirstKinds /\ pc[c] = "returned" /\ result[c] # <<>>

FoundNone(c) == kind[c] \in FindFirstKinds /\ pc[c] = "returned" /\ result[c] = <<>>

\* C1: a task that ends in ReadTimeout or in an error response starting with
\* TIMS-3961 contributes no record and does not abort the drain: as long as
\* every task taken so far is such a task or a successful one, no error has
\* reached the caller, and a consumer that does not stop early has been
\* yielded all the rows of every successful task taken, in any completion
\* order; when all tasks are taken the call has returned.
C1_BenignFailuresSkipped ==
    \A c \in Calls :
        (/\ consumed[c] > 0
         /\ \A j \in 1..consumed[c] : Benign(Taken(c, j)) \/ Successful(Taken(c, j)))
        => /\ pc[c] \in {"drain", "returned"} /\ exc[c] = "none"
           /\ consumed[c] = Len(tasks[c]) => pc[c] = "returned"
           /\ \A j \in 1..consumed[c] :
                Benign(Taken(c, j)) => RowsFrom(c, doneq[c][j]) = <<>>
           /\ ~cancelled[c] => YieldedRecs(c) = RowsInOrder(c, consumed[c])

C1_Witness ==
    /\ pc["c1"] = "returned" /\ consumed["c1"] = 2 /\ ~cancelled["c1"]
    /\ TimedOut(Taken("c1", 1)) /\ Successful(Taken("c1", 2))
    /\ Len(yielded["c1"]) = 2

\* C2: a task taken with an error status other than the TIMS-3961 marker ends
\* the drain with the transport error at the caller: it is the last task
\* taken, none of its rows is yielded, and what was yielded before stays
\* yielded (the yielded sequence only grows, and not at all once the call
\* has raised).
C2_Inv ==
    \A c \in Calls : \A j \in 1..consumed[c] :
        NonBenign(Taken(c, j))
        => /\ pc[c] = "raised" /\ exc[c] = "HTTPStatusError"
           /\ j = consumed[c]
           /\ RowsFrom(c, doneq[c][j]) = <<>>

C2_Step ==
    \A c \in Calls :
        /\ IsPrefix(yielded[c], yielded'[c])
        /\ pc[c] = "raised" => (pc'[c] = "raised" /\ yielded'[c] = yielded[c]
                                /\ consumed'[c] = consumed[c])

C2_NonBenignErrorAborts == [](C2_Inv) /\ [][C2_Step]_vars

C2_Witness ==
    /\ pc["c1"] = "raised" /\ exc["c1"] = "HTTPStatusError"
    /\ consumed["c1"] = 2 /\ Len(yielded["c1"]) = 2
    /\ NonBenign(Taken("c1", 2))

\* C3: a find-first call that returns a record returns the first record, in
\* the order yielded (completion order of the tasks, then row order), whose
\* address (resp. mac) equals the value asked for, with dhcpServerName the
\* directory's name for the record's dhcpServer; no record yielded before it
\* has the value, and it is the last record taken.  A call that returns None
\* was yielded no record with the value.
C3_FindFirstReturnsFirstMatch ==
    \A c \in Calls :
        /\ FoundMatch(c)
           => LET n      == Len(yielded[c])
                  before == RowsInOrder(c, consumed[c] - 1)
                  m      == n - Len(before)
              IN  /\ n > 0 /\ Len(result[c]) = 1
                  /\ Successful(Taken(c, consumed[c]))
                  /\ n > Len(before) /\ m <= Len(Taken(c, consumed[c]).res.rows)
                  /\ YieldedRecs(c) = before \o SubSeq(Taken(c, consumed[c]).res.rows, 1, m)
                  /\ yielded[c][n].rec[Field(c)] = arg[c]
                  /\ \A k \in 1..(n - 1) : yielded[c][k].rec[Field(c)] # arg[c]
                  /\ IsEnriched(result[c][1], yielded[c][n].rec)
        /\ FoundNone(c)
           => \A k \in 1..Len(yielded[c]) : yielded[c][k].rec[Field(c)] # arg[c]

C3_Witness ==
    /\ FoundMatch("c1") /\ kind["c1"] = "find_dhcp_lease_macaddr"
    /\ consumed["c1"] = 2 /\ Len(yielded["c1"]) = 3
    /\ Len(Taken("c1", 2).res.rows) = 2
    /\ result["c1"][1].dhcpServerName = "core2"

\* C4: when a find-first call returns a record, no task of the call is
\* pending without a cancel request; the step that returns it leaves every
\* task that was done as it was and changes nothing of a pending task but its
\* cancel request; every record delivered comes from a task that was done
\* before the match, and nothing is delivered after the return.
C4_Inv ==
    \A c \in Calls :
        FoundMatch(c)
        => /\ \A i \in 1..Len(tasks[c]) : tasks[c][i].st = "pending" => tasks[c][i].cancel_req
           /\ \A k \in 1..Len(yielded[c]) :
                /\ tasks[c][yielded[c][k].task].st = "done"
                /\ ~tasks[c][yielded[c][k].task].cancel_req

C4_Step ==
    \A c \in Calls :
        /\ (~FoundMatch(c) /\ FoundMatch(c)')
           => \A i \in 1..Len(tasks[c]) :
                IF tasks[c][i].st = "pending"
                THEN tasks'[c][i] = [tasks[c][i] EXCEPT !.cancel_req = TRUE]
                ELSE tasks'[c][i] = tasks[c][i]
        /\ FoundMatch(c)
           => /\ yielded'[c] = yielded[c] /\ result'[c] = result[c] /\ pc'[c] = pc[c]
              /\ \A i \in 1..Len(tasks[c]) : tasks[c][i].st = "done" => tasks'[c][i] = tasks[c][i]

C4_MatchCancelsPendingTasks == [](C4_Inv) /\ [][C4_Step]_vars

C4_Witness ==
    /\ FoundMatch("c1") /\ Len(tasks["c1"]) = 2
    /\ consumed["c1"] = 1
    /\ tasks["c1"][1].st = "cancelled" /\ tasks["c1"][1].cancel_req
    /\ Successful(tasks["c1"][2])

\* C5: a find-first call returns None only when every task of the call has
\* been taken, each of them done (successful, timed out or offline) and none
\* of their rows having the value; and it cancels nothing before: a task of
\* a find-first call is requested to cancel only once a record with the value
\* has been yielded.
C5_NotFoundOnlyAfterDrain ==
    \A c \in Calls :
        /\ FoundNone(c)
           => /\ consumed[c] = Len(tasks[c])
              /\ \A i \in 1..Len(tasks[c]) :
                    /\ Successful(tasks[c][i]) \/ Benign(tasks[c][i])
                    /\ \A k \in 1..Len(tasks[c][i].res.rows) :
                            tasks[c][i].res.rows[k][Field(c)] # arg[c]
        /\ (/\ kind[c] \in FindFirstKinds
            /\ \/ cancelled[c]
               \/ \E i \in 1..Len(tasks[c]) : tasks[c][i].cancel_req \/ tasks[c][i].st = "cancelled")
           => /\ pc[c] \in {"returned", "raised"}
              /\ Len(yielded[c]) > 0
              /\ yielded[c][Len(yielded[c])].rec[Field(c)] = arg[c]

C5_Witness ==
    /\ FoundNone("c1") /\ Len(tasks["c1"]) = 2
    /\ Offline(Taken("c1", 1)) /\ Successful(Taken("c1", 2))
    /\ Len(yielded["c1"]) = 2

\* C6: find_dhcp_lease_matching returns, for every completion order, the
\* yielded records its matcher accepts, in the order yielded, each with
\* dhcpServerName set from its dhcpServer; what it was yielded is every row of
\* every successful task, once; so a matcher accepting everything returns
\* exactly the rows of the successful servers.
C6_FindMatchingReturnsAllMatches ==
    \A c \in Calls :
        (kind[c] = "find_dhcp_lease_matching" /\ pc[c] = "returned")
        => LET want == SelectSeq(YieldedRecs(c), LAMBDA rec : <<rec.address, rec.mac>> \in arg[c])
           IN  /\ consumed[c] = Len(tasks[c])
               /\ YieldedRecs(c) = RowsInOrder(c, Len(tasks[c]))
               /\ Len(result[c]) = Len(want)
               /\ \A k \in 1..Len(want) : IsEnriched(result[c][k], want[k])
               /\ arg[c] = Leases => Len(result[c]) = RowCount(tasks[c], Len(tasks[c]))

C6_Witness ==
    /\ kind["c1"] = "find_dhcp_lease_matching" /\ pc["c1"] = "returned"
    /\ arg["c1"] = Leases /\ Len(tasks["c1"]) = 2 /\ doneq["c1"] = <<2, 1>>
    /\ Len(tasks["c1"][1].res.rows) = 2 /\ Len(tasks["c1"][2].res.rows) = 1
    /\ Len(result["c1"]) = 3

C6_WitnessFilter ==
    /\ kind["c1"] = "find_dhcp_lease_matching" /\ pc["c1"] = "returned"
    /\ Len(yielded["c1"]) = 3 /\ Len(result["c1"]) = 1

\* C7: with at least one server and no task ending in a non-benign error,
\* fetch_dhcp_leases ends normally once every task is taken and has yielded
\* as many records as the successful responses have rows, whatever the
\* completion order and whichever tasks time out or are offline.
C7_FetchYieldsEveryRow ==
    \A c \in Calls :
        (/\ kind[c] = "fetch_dhcp_leases"
         /\ Len(tasks[c]) > 0 /\ consumed[c] = Len(tasks[c])
         /\ \A i \in 1..Len(tasks[c]) : ~NonBenign(tasks[c][i]))
        => /\ pc[c] = "returned" /\ exc[c] = "none"
           /\ Len(yielded[c]) = RowCount(tasks[c], Len(tasks[c]))

C7_Witness ==
    /\ kind["c1"] = "fetch_dhcp_leases" /\ pc["c1"] = "returned"
    /\ Len(tasks["c1"]) = 2 /\ doneq["c1"] = <<2, 1>>
    /\ Successful(tasks["c1"][1]) /\ TimedOut(tasks["c1"][2])
    /\ Len(yielded["c1"]) = 2

\* Both directions of bidict b agree, and no key is held twice.
Bijection(b) ==
    /\ Cardinality(DictKeys(b.fwdm)) = Len(b.fwdm)
    /\ Cardinality(DictKeys(b.invm)) = Len(b.invm)
    /\ Len(b.fwdm) = Len(b.invm)
    /\ \A n \in DictKeys(b.fwdm) :
            HasAddr(b, Lookup(b, n)) /\ InvLookup(b, Lookup(b, n)) = n
    /\ \A a \in DictKeys(b.invm) :
            HasName(b, InvLookup(b, a)) /\ Lookup(b, InvLookup(b, a)) = a

\* User coroutine u's fetch_dhcp_servers ends in this step.
FetchEnds(u) == fs_pc[u] = "awaiting" /\ fs_pc'[u] = "idle"

BodyNames(body) == {body[i].name : i \in {j \in 1..Len(body) : "name" \in DOMAIN body[j]}}

BodyAddrs(body) ==
    {body[i].v4_ipaddress : i \in {j \in 1..Len(body) : "v4_ipaddress" \in DOMAIN body[j]}}

\* C8: the directory is a bijection in every state: name to address and back
\* gives the name, address to name and back gives the address; and when a
\* fetch_dhcp_servers has received a server list, a name or an address that
\* is not in that list is not in the directory.
C8_Step ==
    \A u \in Users :
        (FetchEnds(u) /\ fs_ret'[u].exc # "HTTPStatusError")
        => /\ \A n \in Names \ BodyNames(fs_ret'[u].body) : ~HasName(dhcp_servers', n)
           /\ \A a \in Addrs \ BodyAddrs(fs_ret'[u].body) : ~HasAddr(dhcp_servers', a)

C8_DirectoryIsBijection == [](Bijection(dhcp_servers)) /\ [][C8_Step]_vars

C8_Witness ==
    /\ fs_ret["u1"].exc = "none"
    /\ fs_ret["u1"].body = <<[name |-> "core2", v4_ipaddress |-> "10.0.0.1"],
                             [name |-> "core1", v4_ipaddress |-> "10.0.0.2"]>>
    /\ Lookup(dhcp_servers, "core2") = "10.0.0.1"
    /\ InvLookup(dhcp_servers, "10.0.0.2") = "core1"

\* The items the dict built from a server list holds: for each name the
\* address of its last record.
LastItems(body) ==
    {<<body[i].name, body[i].v4_ipaddress>> :
        i \in {j \in 1..Len(body) : \A k \in (j + 1)..Len(body) : body[k].name # body[j].name}}

\* Bidict b is the complete map of the server list body.
IsMapOf(b, body) ==
    /\ \A i \in 1..Len(body) : DOMAIN body[i] = {"name", "v4_ipaddress"}
    /\ {<<b.fwdm[i][1], b.fwdm[i][2]>> : i \in 1..Len(b.fwdm)} = LastItems(body)
    /\ {<<b.invm[i][2], b.invm[i][1]>> : i \in 1..Len(b.invm)} = LastItems(body)

\* C9: fetch_dhcp_servers replaces the directory atomically: whenever a call
\* ends, returning or raising, the directory is the complete map it was
\* before the call or the complete map of the new server list.
C9_Step ==
    \A u \in Users :
        FetchEnds(u)
        => \/ dhcp_servers' = dhcp_servers
           \/ IsMapOf(dhcp_servers', fs_ret'[u].body)

C9_OldOrNewDirectory == [][C9_Step]_vars

\* C10: when the consumer of the tasker has cancelled the tasks and goes on
\* consuming, taking a cancelled task raises nothing and yields none of its
\* records.
C10_CancelledResultsDiscarded ==
    \A c \in Calls :
        (\E j \in 1..consumed[c] : Taken(c, j).st = "cancelled")
        => /\ exc[c] = "none"
           /\ \A j \in 1..consumed[c] :
                Taken(c, j).st = "cancelled" => RowsFrom(c, doneq[c][j]) = <<>>

\* A record with the value asked for has been yielded to find-first call c.
MatchYielded(c) ==
    /\ kind[c] \in FindFirstKinds
    /\ \E k \in 1..Len(yielded[c]) : yielded[c][k].rec[Field(c)] = arg[c]

\* C11: a find-first call ends in the very step that yields it the record
\* with the value: there is no state in which the match has been yielded and
\* the call has not yet cancelled and ended; and the step that returns the
\* match awaits nothing again: it takes one completed task, and every task is
\* in the state (pending, done) it was in, so the return does not wait for a
\* cancelled task, or for any pending one, to terminate.
C11_Inv ==
    \A c \in Calls :
        MatchYielded(c) => (pc[c] \in {"returned", "raised"} /\ cancelled[c])

C11_Step ==
    \A c \in Calls :
        (~FoundMatch(c) /\ FoundMatch(c)')
        => /\ pc[c] = "drain" /\ ~MatchYielded(c)
           /\ consumed'[c] = consumed[c] + 1 /\ doneq'[c] = doneq[c]
           /\ \A i \in 1..Len(tasks[c]) :
                tasks'[c][i].st = tasks[c][i].st /\ tasks'[c][i].res = tasks[c][i].res

C11_MatchReturnsWithoutAwaiting == [](C11_Inv) /\ [][C11_Step]_vars

C11_Witness ==
    /\ FoundMatch("c1") /\ Len(tasks["c1"]) = 2 /\ doneq["c1"] = <<2>>
    /\ tasks["c1"][1].st = "pending" /\ tasks["c1"][1].cancel_req

\* Call c leaves the start of the tasker (lines 188-206) in this step.
FanOutStep(c) == pc[c] \in {"idle", "refresh"} /\ pc'[c] \notin {"idle", "refresh"}

UnknownName(b, s) == \E i \in 1..Len(s) : ~HasName(b, s[i])

\* C12: a call given a server name the directory does not hold, once the
\* implicit refresh (if any) is done, raises the lookup error (or the error of
\* the refresh itself) in the step that would fan out, and creates no task,
\* not even for the names the directory holds; a call that has raised before
\* taking any task has no task and was yielded nothing.
C12_Step ==
    \A c \in Calls :
        (FanOutStep(c) /\ UnknownName(dhcp_servers', servers'[c]))
        => /\ pc'[c] = "raised" /\ tasks'[c] = <<>>
           /\ \/ exc'[c] = "KeyError"
              \/ pc[c] = "refresh" /\ exc'[c] \in {"HTTPStatusError", "ValueDuplicationError"}

C12_Inv ==
    \A c \in Calls :
        (pc[c] = "raised" /\ consumed[c] = 0) => (tasks[c] = <<>> /\ yielded[c] = <<>>)

C12_UnknownNameFailsBeforeRequests == [](C12_Inv) /\ [][C12_Step]_vars

C12_Witness ==
    /\ pc["c1"] = "raised" /\ exc["c1"] = "KeyError"
    /\ servers["c1"] = <<"core1", "core2">>
    /\ HasName(dhcp_servers, "core1") /\ ~HasName(dhcp_servers, "core2")
    /\ tasks["c1"] = <<>>

\* C13: fetch_dhcp_leases and find_dhcp_lease_matching never request a
\* cancel, and return only when every task has been taken, each of them done
\* (successful, timed out or offline), with every row of every successful
\* response yielded, whether or not the matcher has accepted a record before.
C13_NoCancelNoShortCircuit ==
    \A c \in Calls :
        kind[c] \in {"fetch_dhcp_leases", "find_dhcp_lease_matching"}
        => /\ ~cancelled[c]
           /\ \A i \in 1..Len(tasks[c]) :
                ~tasks[c][i].cancel_req /\ tasks[c][i].st # "cancelled"
           /\ pc[c] = "returned"
              => /\ consumed[c] = Len(tasks[c])
                 /\ \A i \in 1..Len(tasks[c]) :
                        /\ Successful(tasks[c][i]) \/ Benign(tasks[c][i])
                        /\ Successful(tasks[c][i]) => RowsFrom(c, i) = tasks[c][i].res.rows

C13_Witness ==
    /\ kind["c1"] = "find_dhcp_lease_matching" /\ pc["c1"] = "returned"
    /\ Cardinality(arg["c1"]) = 1 /\ Len(yielded["c1"]) = 4
    /\ <<yielded["c1"][1].rec.address, yielded["c1"][1].rec.mac>> \in arg["c1"]
    /\ Len(result["c1"]) = 2

\* The place of task i in the completion order of call c.
Pos(c, i) == CHOOSE j \in 1..Len(doneq[c]) : doneq[c][j] = i

\* C14: the records are yielded in completion order of their tasks, whatever
\* the submission order: a record yielded earlier is of a task that did not
\* complete later, so the rows of one task are contiguous; and the rows
\* yielded from one task are the rows of its response in the response's
\* order.
C14_CompletionOrder ==
    \A c \in Calls :
        /\ \A k, l \in 1..Len(yielded[c]) :
                k < l => Pos(c, yielded[c][k].task) <= Pos(c, yielded[c][l].task)
        /\ \A i \in 1..Len(tasks[c]) : IsPrefix(RowsFrom(c, i), tasks[c][i].res.rows)

C14_Witness ==
    /\ kind["c1"] = "tasker" /\ doneq["c1"] = <<2, 1>> /\ Len(yielded["c1"]) = 4
    /\ yielded["c1"][2].task = 2 /\ yielded["c1"][3].task = 1
    /\ tasks["c1"][2].res.rows[1].address = "10.1.1.6"
    /\ tasks["c1"][2].res.rows[2].address = "10.1.1.5"

\* The addresses call c resolves with directory b.
Resolved(b, s) ==
    IF s # <<>> THEN {Lookup(b, s[i]) : i \in 1..Len(s)} ELSE DictKeys(b.invm)

\* C15: the step that fans out creates, for each resolved address, exactly
\* one task, and none for another address; all tasks are pending and no
\* record has been yielded when the handles are handed out; afterwards the
\* call never creates a task and never restarts one: the tasks keep their
\* number and addresses, and a task that has ended stays as it ended.
C15_Step ==
    \A c \in Calls :
        /\ (FanOutStep(c) /\ pc'[c] # "raised")
           => /\ \A a \in Addrs :
                    Cardinality({i \in 1..Len(tasks'[c]) : tasks'[c][i].ip = a})
                        = IF a \in Resolved(dhcp_servers', servers'[c]) THEN 1 ELSE 0
              /\ \A i \in 1..Len(tasks'[c]) :
                    tasks'[c][i].st = "pending" /\ ~tasks'[c][i].cancel_req
              /\ yielded'[c] = <<>> /\ consumed'[c] = 0 /\ doneq'[c] = <<>>
        /\ pc[c] \notin {"idle", "refresh"}
           => /\ Len(tasks'[c]) = Len(tasks[c])
              /\ \A i \in 1..Len(tasks[c]) :
                    /\ tasks'[c][i].ip = tasks[c][i].ip
                    /\ tasks[c][i].st # "pending" => tasks'[c][i] = tasks[c][i]

C18_NoTaskLeftPending ==
    \A c \in Calls :
        pc[c] \in {"returned", "raised"}
        => \A i \in 1..Len(tasks[c]) : tasks[c][i].st = "pending" => tasks[c][i].cancel_req

\* Some row of the first n tasks taken by call c has the value asked for.
MatchWithin(c, n) ==
    \E k \in 1..Len(RowsInOrder(c, n)) : RowsInOrder(c, n)[k][Field(c)] = arg[c]

\* The rows with the value asked for, over all the responses of call c.
Matches(c) ==
    {<<i, k>> \in (1..Len(tasks[c])) \X (1..MaxRows) :
        /\ Successful(tasks[c][i]) /\ k <= Len(tasks[c][i].res.rows)
        /\ tasks[c][i].res.rows[k][Field(c)] = arg[c]}

\* C19: the drain of a find-first call raises the transport error exactly
\* when it has taken a task with a non-benign error response and no row of
\* the tasks taken before it has the value; once the match is returned the
\* outcome is final, whatever response a task not taken holds; and when every
\* task is done, none with a non-benign error, and exactly one row of all the
\* responses has the value, the call, in every completion order, can only
\* return, and returns that row with the name of its server.
C19_Inv ==
    \A c \in Calls :
        kind[c] \in FindFirstKinds
        => /\ (pc[c] = "raised" /\ exc[c] = "HTTPStatusError" /\ consumed[c] > 0)
                <=> \E j \in 1..consumed[c] :
                        NonBenign(Taken(c, j)) /\ ~MatchWithin(c, j - 1)
           /\ FoundMatch(c) => \A j \in 1..consumed[c] : ~NonBenign(Taken(c, j))
           /\ (/\ Len(tasks[c]) > 0
               /\ \A i \in 1..Len(tasks[c]) : tasks[c][i].st = "done" /\ ~NonBenign(tasks[c][i])
               /\ Cardinality(Matches(c)) = 1)
              => LET m == CHOOSE x \in Matches(c) : TRUE
                 IN  /\ pc[c] \in {"drain", "returned"}
                     /\ consumed[c] = Len(tasks[c]) => pc[c] = "returned"
                     /\ pc[c] = "returned"
                        => /\ Len(result[c]) = 1
                           /\ IsEnriched(result[c][1], tasks[c][m[1]].res.rows[m[2]])

C19_Step ==
    \A c \in Calls :
        FoundMatch(c) => (pc'[c] = "returned" /\ exc'[c] = "none" /\ result'[c] = result[c])

C19_OutcomeByFirstEvent == [](C19_Inv) /\ [][C19_Step]_vars

C19_Witness ==
    /\ FoundMatch("c1") /\ doneq["c1"] = <<1, 2>> /\ consumed["c1"] = 1
    /\ NonBenign(tasks["c1"][2])

C19_WitnessAnyOrder ==
    /\ FoundMatch("c1") /\ doneq["c1"] = <<2, 1>> /\ consumed["c1"] = 2
    /\ Offline(tasks["c1"][2]) /\ Cardinality(Matches("c1")) = 1
    /\ result["c1"][1].dhcpServerName = "core1"

\* Call c starts in this step.
StartStep(c) == pc[c] = "idle" /\ pc'[c] # "idle"

\* The addresses of the tasks ts, in submission order.
TaskIps(ts) == [i \in 1..Len(ts) |-> ts[i].ip]

\* C16: the step that starts a call issues the list request exactly when the
\* directory is empty, and a call issues it at no other step; started on a
\* directory that holds a server the call leaves the directory as it is and
\* fans out at once: to the addresses of the named servers, in the order
\* named, or, no name being given, to every address of the directory; after
\* an implicit refresh too a call without names queries every server of the
\* directory.
C16_Step ==
    \A c \in Calls :
        /\ StartStep(c)
           => /\ refreshed'[c] <=> dhcp_servers = EmptyBidict
              /\ pc'[c] = "refresh" <=> dhcp_servers = EmptyBidict
        /\ (StartStep(c) /\ dhcp_servers # EmptyBidict)
           => /\ dhcp_servers' = dhcp_servers
              /\ UnknownName(dhcp_servers, servers'[c]) <=> pc'[c] = "raised"
              /\ pc'[c] # "raised"
                 => TaskIps(tasks'[c]) =
                        IF servers'[c] # <<>>
                        THEN [i \in 1..Len(servers'[c]) |-> Lookup(dhcp_servers, servers'[c][i])]
                        ELSE [i \in 1..Len(dhcp_servers.fwdm) |-> dhcp_servers.fwdm[i][2]]
        /\ (~StartStep(c) /\ pc'[c] # "idle") => refreshed'[c] = refreshed[c]
        /\ (pc[c] # "refresh" /\ \A d \in Calls \ {c} : pc[d] # "refresh")
           => dhcp_servers' = dhcp_servers
        /\ (FanOutStep(c) /\ pc'[c] # "raised" /\ servers'[c] = <<>>)
           => {tasks'[c][i].ip : i \in 1..Len(tasks'[c])} = DictKeys(dhcp_servers'.invm)

C16_RefreshIffDirectoryEmpty == [][C16_Step]_vars

C16_Witness ==
    /\ pc["c1"] = "returned" /\ ~refreshed["c1"] /\ servers["c1"] = <<>>
    /\ Len(dhcp_servers.fwdm) = 2 /\ TaskIps(tasks["c1"]) = <<"10.0.0.2", "10.0.0.1">>
    /\ consumed["c1"] = 2

C16_WitnessNamed ==
    /\ pc["c1"] = "drain" /\ ~refreshed["c1"] /\ servers["c1"] = <<"core2">>
    /\ Len(dhcp_servers.fwdm) = 2 /\ Len(tasks["c1"]) = 1

\* The drain of call c ends in this step.
EndStep(c) == pc[c] = "drain" /\ pc'[c] \in {"returned", "raised"}

\* Record rec with the name directory b holds for its server.
Named(b, rec) ==
    [address |-> rec.address, mac |-> rec.mac, dhcpServer |-> rec.dhcpServer,
     dhcpServerName |-> CHOOSE n \in Names : HasName(b, n) /\ Lookup(b, n) = rec.dhcpServer]

\* C20: the server name is looked up in the directory as it is in the step
\* that ends the drain, whatever it was at fan-out.  A find-first call that
\* has been yielded its match has requested every pending task to cancel,
\* and returns the record with the name the directory holds now for its
\* server, or raises KeyError when the directory no longer holds the
\* server.  find_dhcp_lease_matching, its drain at its end, returns every
\* accepted record with the name the directory holds now, or, one of their
\* servers missing, raises KeyError and returns nothing.
C20_Step ==
    \A c \in Calls :
        /\ (EndStep(c) /\ kind[c] \in FindFirstKinds /\ MatchYielded(c)')
           => LET rec == yielded'[c][Len(yielded'[c])].rec
              IN  /\ \A i \in 1..Len(tasks'[c]) :
                        tasks'[c][i].st = "pending" => tasks'[c][i].cancel_req
                  /\ IF HasAddr(dhcp_servers, rec.dhcpServer)
                     THEN /\ pc'[c] = "returned" /\ exc'[c] = "none"
                          /\ result'[c] = <<Named(dhcp_servers, rec)>>
                     ELSE /\ pc'[c] = "raised" /\ exc'[c] = "KeyError"
                          /\ result'[c] = <<>>
        /\ (EndStep(c) /\ kind[c] = "find_dhcp_lease_matching" /\ exc'[c] # "HTTPStatusError")
           => LET want == SelectSeq(YieldedRecs(c)',
                                    LAMBDA rec : <<rec.address, rec.mac>> \in arg[c])
              IN  IF \A k \in 1..Len(want) : HasAddr(dhcp_servers, want[k].dhcpServer)
                  THEN /\ pc'[c] = "returned" /\ exc'[c] = "none"
                       /\ result'[c] = [k \in 1..Len(want) |-> Named(dhcp_servers, want[k])]
                  ELSE /\ pc'[c] = "raised" /\ exc'[c] = "KeyError"
                       /\ result'[c] = <<>>

C20_EnrichmentUsesCurrentDirectory == [][C20_Step]_vars

\* The server named at fan-out answers, and is renamed before its row is taken.
C20_Witness ==
    /\ FoundMatch("c1") /\ servers["c1"] = <<"core1">> /\ fs_pc["u1"] = "ended"
    /\ result["c1"][1].dhcpServerName = "core2"

\* The server is removed: the lookup fails after the cancel requests.
C20_WitnessRemoved ==
    /\ kind["c1"] \in FindFirstKinds /\ pc["c1"] = "raised" /\ exc["c1"] = "KeyError"
    /\ consumed["c1"] = 1 /\ cancelled["c1"] /\ Len(tasks["c1"]) = 2
    /\ tasks["c1"][2].st = "pending" /\ tasks["c1"][2].cancel_req

\* find_dhcp_lease_matching had accepted records and returns none of them.
C20_WitnessNoPartialList ==
    /\ kind["c1"] = "find_dhcp_lease_matching" /\ pc["c1"] = "raised"
    /\ exc["c1"] = "KeyError" /\ Len(found_records["c1"]) = 2 /\ result["c1"] = <<>>
    /\ HasAddr(dhcp_servers, found_records["c1"][1].dhcpServer)

\* What call c holds: its position, its tasks, what it was yielded, its result.
CallState(c) ==
    <<pc[c], kind[c], arg[c], servers[c], refreshed[c], tasks[c], doneq[c], consumed[c],
      yielded[c], found_records[c], cancelled[c], result[c], exc[c]>>

\* C17: the task sets of two calls are disjoint.  A step of one call, its
\* cancel loop included, changes nothing of the other call: not its tasks,
\* not its records, not its result; a task is under a cancel request only
\* when its own call has run the cancel loop.  The other call therefore gets
\* what it gets alone: the rows of its own successful responses in its own
\* completion order, and, returning, every accepted record with the name the
\* directory holds for its server.
C17_Inv ==
    \A c \in Calls :
        /\ \A i \in 1..Len(tasks[c]) :
                (tasks[c][i].cancel_req \/ tasks[c][i].st = "cancelled") => cancelled[c]
        /\ kind[c] = "find_dhcp_lease_matching"
           => /\ ~cancelled[c]
              /\ YieldedRecs(c) = RowsInOrder(c, consumed[c])
              /\ pc[c] = "returned"
                 => /\ consumed[c] = Len(tasks[c])
                    /\ result[c] = [k \in 1..Len(found_records[c]) |->
                                        Named(dhcp_servers, found_records[c][k])]
                    /\ arg[c] = Leases => Len(result[c]) = RowCount(tasks[c], Len(tasks[c]))

C17_Step ==
    \A c, d \in Calls :
        (c # d /\ CallState(c)' # CallState(c)) => CallState(d)' = CallState(d)

C17_DisjointTaskSets == [](C17_Inv) /\ [][C17_Step]_vars

\* c1 has returned its match and cancelled its request to a server, while the
\* request of c2 to that server has run to its end and c2 has returned its rows.
C17_Witness ==
    /\ FoundMatch("c1") /\ Len(tasks["c1"]) = 2 /\ tasks["c1"][2].st = "cancelled"
    /\ pc["c2"] = "returned" /\ Len(tasks["c2"]) = 1
    /\ tasks["c2"][1].ip = tasks["c1"][2].ip
    /\ Successful(tasks["c2"][1]) /\ Len(result["c2"]) = 2

====
